---- MODULE Spec2Model ----
(***************************************************************************)
(* A model of app.py (build_malaria_district_csv): download the PDFs of    *)
(* PDF_SOURCES, find the pages that mention "Malaria", extract their       *)
(* tables, normalise and clean them, and write the raw and the aggregated  *)
(* CSV files.                                                              *)
(*                                                                         *)
(* Text is a sequence of one-character strings, so that the regular        *)
(* expressions of the program are computed rather than assumed.  A cell    *)
(* value of a DataFrame is a record [k, s, n]: k is the kind of the value  *)
(* ("str", "int", "float", "none", "nan", "na"), s its text (kind "str")   *)
(* and n its number (kinds "int" and "float"; a float is always a whole    *)
(* number here).  A DataFrame is [cols, idx, rows]: its column labels, its *)
(* row labels and its rows, each a sequence of cells, one per column.      *)
(***************************************************************************)
EXTENDS Integers, Sequences, FiniteSets, TLC

\* ------------------------------------------------------------------ text

\* The characters of the model's texts in code-point order.
Alphabet ==
    << " ", "-", ".", "/", "0", "1", "2", "3", "4", "5", "6", "7", "8", "9", "<", ">",
       "A", "B", "C", "D", "E", "F", "G", "H", "I", "J", "K", "L", "M", "N", "O",
       "P", "Q", "R", "S", "T", "U", "V", "W", "X", "Y", "Z", "_",
       "a", "b", "c", "d", "e", "f", "g", "h", "i", "j", "k", "l", "m", "n", "o",
       "p", "q", "r", "s", "t", "u", "v", "w", "x", "y", "z" >>

Digit == << "0", "1", "2", "3", "4", "5", "6", "7", "8", "9" >>

Ord(c) == CHOOSE i \in 1..Len(Alphabet) : Alphabet[i] = c

IsDigit(c) == \E i \in 1..10 : Digit[i] = c

DigitVal(c) == (CHOOSE i \in 1..10 : Digit[i] = c) - 1

IsUpper(c) == Ord(c) >= Ord("A") /\ Ord(c) <= Ord("Z")

\* str.lower(), and the effect of flags=re.I on an ASCII pattern
LowerChar(c) == IF IsUpper(c) THEN Alphabet[Ord(c) + (Ord("a") - Ord("A"))] ELSE c

Lower(s) == [i \in 1..Len(s) |-> LowerChar(s[i])]

\* pat occurs in s at position i
MatchAt(s, pat, i) ==
    /\ i + Len(pat) - 1 <= Len(s)
    /\ \A j \in 1..Len(pat) : s[i + j - 1] = pat[j]

\* `pat in s`, re.search of a literal pattern
Contains(s, pat) == \E i \in 1..(Len(s) + 1) : MatchAt(s, pat, i)

\* s < t in Python's ordering of str
StrLess(s, t) ==
    \/ \E i \in 1..Len(s) :
          /\ i <= Len(t)
          /\ \A j \in 1..(i - 1) : s[j] = t[j]
          /\ Ord(s[i]) < Ord(t[i])
    \/ /\ Len(s) < Len(t)
       /\ \A j \in 1..Len(s) : s[j] = t[j]

\* 20\d{2}|19\d{2} matches s at position i
YearAt(s, i) ==
    /\ i + 3 <= Len(s)
    /\ \/ s[i] = "2" /\ s[i + 1] = "0"
       \/ s[i] = "1" /\ s[i + 1] = "9"
    /\ IsDigit(s[i + 2])
    /\ IsDigit(s[i + 3])

\* re.search(r"20\d{2}|19\d{2}", s) finds a match
HasYear(s) == \E i \in 1..Len(s) : YearAt(s, i)

\* the leftmost match of the year pattern in s, as text
YearText(s) ==
    LET i == CHOOSE k \in 1..Len(s) : YearAt(s, k) /\ \A m \in 1..(k - 1) : ~YearAt(s, m)
    IN  SubSeq(s, i, i + 3)

RECURSIVE ParseDigits(_)
\* int() of a non-empty text of digits
ParseDigits(s) ==
    IF Len(s) = 0 THEN 0
    ELSE 10 * ParseDigits(SubSeq(s, 1, Len(s) - 1)) + DigitVal(s[Len(s)])

RECURSIVE DigitsOf(_)
\* str() of a natural number
DigitsOf(n) ==
    IF n < 10 THEN << Digit[n + 1] >>
    ELSE DigitsOf(n \div 10) \o << Digit[(n % 10) + 1] >>

\* str() of an int
IntText(n) == IF n < 0 THEN << "-" >> \o DigitsOf(0 - n) ELSE DigitsOf(n)


IsSpace(c) == c = " "

RECURSIVE Collapse(_)
\* re.sub(r"\s+", " ", s): every run of whitespace becomes one space
Collapse(s) ==
    IF Len(s) = 0 THEN << >>
    ELSE IF IsSpace(s[1]) /\ Len(s) > 1 /\ IsSpace(s[2]) THEN Collapse(Tail(s))
    ELSE << s[1] >> \o Collapse(Tail(s))

RECURSIVE Strip(_)
\* str.strip()
Strip(s) ==
    IF Len(s) = 0 THEN s
    ELSE IF IsSpace(s[1]) THEN Strip(Tail(s))
    ELSE IF IsSpace(s[Len(s)]) THEN Strip(SubSeq(s, 1, Len(s) - 1))
    ELSE s

RECURSIVE JoinSpace(_)
\* " ".join(texts)
JoinSpace(texts) ==
    IF Len(texts) = 0 THEN << >>
    ELSE IF Len(texts) = 1 THEN texts[1]
    ELSE texts[1] \o << " " >> \o JoinSpace(Tail(texts))

\* the words the program looks for
tDistrict == << "d", "i", "s", "t", "r", "i", "c", "t" >>
tDzongkhag == << "d", "z", "o", "n", "g", "k", "h", "a", "g" >>
tDistrito == << "d", "i", "s", "t", "r", "i", "t", "o" >>
tName == << "n", "a", "m", "e" >>
tImport == << "i", "m", "p", "o", "r", "t" >>
tIndigenous == << "i", "n", "d", "i", "g", "e", "n", "o", "u", "s" >>
tLocal == << "l", "o", "c", "a", "l" >>
tCase == << "c", "a", "s", "e" >>
tTotal == << "t", "o", "t", "a", "l" >>

\* the column names of the program
cDistrict == tDistrict
cYear == << "y", "e", "a", "r" >>
cCasesRaw == << "c", "a", "s", "e", "s", "_", "r", "a", "w" >>
cCasesTotal == << "c", "a", "s", "e", "s", "_", "t", "o", "t", "a", "l" >>
cCasesImported ==
    << "c", "a", "s", "e", "s", "_", "i", "m", "p", "o", "r", "t", "e", "d" >>
cCasesIndigenous ==
    << "c", "a", "s", "e", "s", "_", "i", "n", "d", "i", "g", "e", "n", "o", "u", "s" >>
cSourceUrl == << "s", "o", "u", "r", "c", "e", "_", "u", "r", "l" >>
cSourcePdf == << "s", "o", "u", "r", "c", "e", "_", "p", "d", "f" >>
cSourcePage == << "s", "o", "u", "r", "c", "e", "_", "p", "a", "g", "e" >>

\* ---------------------------------------------------------------- values

Str(s) == [k |-> "str", s |-> s, n |-> 0]
IntV(n) == [k |-> "int", s |-> << >>, n |-> n]
FloatV(n) == [k |-> "float", s |-> << >>, n |-> n]
NoneV == [k |-> "none", s |-> << >>, n |-> 0]
NaN == [k |-> "nan", s |-> << >>, n |-> 0]
NA == [k |-> "na", s |-> << >>, n |-> 0]

\* pandas isna()
IsNull(v) == v.k \in {"none", "nan", "na"}

\* str(v), which is what astype(str) applies to each value
AsStr(v) ==
    CASE v.k = "str" -> v.s
      [] v.k = "int" -> IntText(v.n)
      [] v.k = "float" -> IntText(v.n) \o << ".", "0" >>
      [] v.k = "none" -> << "N", "o", "n", "e" >>
      [] v.k = "nan" -> << "n", "a", "n" >>
      [] v.k = "na" -> << "<", "N", "A", ">" >>

IsNumericChar(c) == IsDigit(c) \/ c = "-"

\* str.replace(r"[^0-9\-]", "", regex=True)
StripNonNumeric(s) == SelectSeq(s, IsNumericChar)

\* s is an optional minus sign and then digits only
IsIntText(s) ==
    LET d == IF Len(s) > 0 /\ s[1] = "-" THEN Tail(s) ELSE s
    IN  Len(d) > 0 /\ \A i \in 1..Len(d) : IsDigit(d[i])

\* the number pd.to_numeric reads in a text that IsIntText
IntOfText(s) == IF s[1] = "-" THEN 0 - ParseDigits(Tail(s)) ELSE ParseDigits(s)

\* pd.to_numeric(texts, errors="coerce"): int64 when every text is a number,
\* float64 with NaN for the others when one is not
ToNumeric(texts) ==
    LET allInt == \A i \in 1..Len(texts) : IsIntText(texts[i])
    IN  [i \in 1..Len(texts) |->
            IF ~IsIntText(texts[i]) THEN NaN
            ELSE IF allInt THEN IntV(IntOfText(texts[i]))
            ELSE FloatV(IntOfText(texts[i]))]

\* pd.to_numeric(col.astype(str).str.replace(r"[^0-9\-]", "", regex=True), errors="coerce")
ParseCases(col) == ToNumeric([i \in 1..Len(col) |-> StripNonNumeric(AsStr(col[i]))])

\* infer_year_from_filename: the first (19|20)\d{2} of the name as an int, or None
infer_year_from_filename(filename) ==
    IF HasYear(filename) THEN IntV(ParseDigits(YearText(filename))) ELSE NoneV

\* ------------------------------------------------------------ DataFrames

\* <<1, ..., n>>
Idx(n) == [i \in 1..n |-> i]

RECURSIVE Flatten(_)
\* the concatenation of a sequence of sequences
Flatten(ss) == IF Len(ss) = 0 THEN << >> ELSE ss[1] \o Flatten(Tail(ss))

\* the positions of the columns of cols labelled name, in order
Positions(cols, name) ==
    LET Is(j) == cols[j] = name
    IN  SelectSeq(Idx(Len(cols)), Is)

\* `name in df.columns`
HasCol(df, name) == \E j \in 1..Len(df.cols) : df.cols[j] = name

\* df[name] is a Series: exactly one column has the label (with several,
\* pandas returns a DataFrame, which has no .str accessor and no 1-d values)
IsSeries(df, name) == Len(Positions(df.cols, name)) = 1

\* the values of the column df[name], for a label that IsSeries
Col(df, name) ==
    LET j == Positions(df.cols, name)[1]
    IN  [i \in 1..Len(df.rows) |-> df.rows[i][j]]

\* df[name] = vals: replaces the column name, or appends it as the last one
SetCol(df, name, vals) ==
    IF HasCol(df, name)
    THEN [df EXCEPT !.rows =
            [i \in 1..Len(df.rows) |->
                [j \in 1..Len(df.cols) |->
                    IF df.cols[j] = name THEN vals[i] ELSE df.rows[i][j]]]]
    ELSE [cols |-> Append(df.cols, name),
          rows |-> [i \in 1..Len(df.rows) |-> Append(df.rows[i], vals[i])]]

\* df[name] = v for a scalar v
SetScalar(df, name, v) == SetCol(df, name, [i \in 1..Len(df.rows) |-> v])

\* df[names]: the columns with these labels, in the order of names; a label
\* that several columns carry selects all of them
SelectCols(df, names) ==
    LET pos == Flatten([k \in 1..Len(names) |-> Positions(df.cols, names[k])])
    IN  [cols |-> [j \in 1..Len(pos) |-> df.cols[pos[j]]],
         rows |-> [i \in 1..Len(df.rows) |->
                     [j \in 1..Len(pos) |-> df.rows[i][pos[j]]]]]

\* pd.DataFrame()
EmptyDF == [cols |-> << >>, rows |-> << >>]

\* df.empty: an axis of length 0
IsEmpty(df) == Len(df.cols) = 0 \/ Len(df.rows) = 0

\* the labels of cols are pairwise different
UniqueCols(cols) == \A i, j \in 1..Len(cols) : cols[i] = cols[j] => i = j

RECURSIVE UnionCols(_)
\* the union of the column indexes of frames, in order of first appearance
UnionCols(colss) ==
    IF Len(colss) = 0 THEN << >>
    ELSE LET before == UnionCols(SubSeq(colss, 1, Len(colss) - 1))
             last == colss[Len(colss)]
             IsNew(j) == /\ \A k \in 1..Len(before) : before[k] # last[j]
                         /\ \A k \in 1..(j - 1) : last[k] # last[j]
             fresh == SelectSeq(Idx(Len(last)), IsNew)
         IN  before \o [j \in 1..Len(fresh) |-> last[fresh[j]]]

\* pd.concat needs no reindexing (all column indexes are equal) or can reindex
\* (every column index is unique); otherwise it raises InvalidIndexError
ConcatOk(frames) ==
    \/ \A i \in 1..Len(frames) : frames[i].cols = frames[1].cols
    \/ \A i \in 1..Len(frames) : UniqueCols(frames[i].cols)

\* the rows of frame f laid out in the columns cols, NaN where f has no such column
Reindexed(f, cols) ==
    IF f.cols = cols THEN f.rows
    ELSE [i \in 1..Len(f.rows) |->
            [j \in 1..Len(cols) |->
                IF HasCol(f, cols[j]) THEN f.rows[i][Positions(f.cols, cols[j])[1]]
                ELSE NaN]]

\* the columns of pd.concat(frames, sort=False): the one column index when they
\* are all equal, else their union
ConcatCols(frames) ==
    IF \A i \in 1..Len(frames) : frames[i].cols = frames[1].cols
    THEN frames[1].cols
    ELSE UnionCols([i \in 1..Len(frames) |-> frames[i].cols])

\* the frames laid out in the columns cols, one after the other
LaidOut(frames, cols) ==
    [cols |-> cols,
     rows |-> Flatten([i \in 1..Len(frames) |-> Reindexed(frames[i], cols)])]

\* the dtype pandas gives a column of numbers and nulls: int64 and float64
\* concatenate to float64, anything else with object to object
Upcast(col) ==
    IF /\ \A i \in 1..Len(col) : col[i].k \in {"int", "float", "nan"}
       /\ \E i \in 1..Len(col) : col[i].k \in {"float", "nan"}
    THEN [i \in 1..Len(col) |-> IF col[i].k = "int" THEN FloatV(col[i].n) ELSE col[i]]
    ELSE col

\* the column j of the rows
ColumnAt(rows, j) == [i \in 1..Len(rows) |-> rows[i][j]]

\* c with each column in the dtype pandas settles for it
Recast(c) ==
    [cols |-> c.cols,
     rows |-> [i \in 1..Len(c.rows) |->
                 [j \in 1..Len(c.cols) |-> Upcast(ColumnAt(c.rows, j))[i]]]]

\* pd.concat(frames, ignore_index=True, sort=False) of frames that ConcatOk
Concat(frames) == Recast(LaidOut(frames, ConcatCols(frames)))

\* ------------------------------------------------------ normalize_table_df

\* A raw table (camelot's t.df, pd.DataFrame(tbl)) is a sequence of rows of
\* cells, all of one length, with the default labels 0, 1, ... on both axes.

\* df.dropna(how="all").dropna(axis=1, how="all"): idx and cols keep the labels
DropEmpty(raw_df) ==
    LET nrows == Len(raw_df)
        ncols == IF nrows = 0 THEN 0 ELSE Len(raw_df[1])
        KeepRow(i) == \E j \in 1..ncols : ~IsNull(raw_df[i][j])
        r == SelectSeq(Idx(nrows), KeepRow)
        KeepCol(j) == \E i \in 1..Len(r) : ~IsNull(raw_df[r[i]][j])
        c == SelectSeq(Idx(ncols), KeepCol)
    IN  [idx |-> [i \in 1..Len(r) |-> r[i] - 1],
         cols |-> [j \in 1..Len(c) |-> c[j] - 1],
         rows |-> [i \in 1..Len(r) |-> [j \in 1..Len(c) |-> raw_df[r[i]][c[j]]]]]

\* re.search(r"district|dzongkhag|dzongkhags|distrito", " ".join(row), flags=re.I)
LooksLikeHeader(row) ==
    LET text == Lower(JoinSpace([j \in 1..Len(row) |-> AsStr(row[j])]))
    IN  Contains(text, tDistrict) \/ Contains(text, tDzongkhag) \/ Contains(text, tDistrito)

\* header_row + 1: the first of the first three rows that looks like a
\* header, 0 when header_row is None
HeaderRow(df) ==
    LET n == IF Len(df.rows) < 3 THEN Len(df.rows) ELSE 3
    IN  IF \E i \in 1..n : LooksLikeHeader(df.rows[i])
        THEN CHOOSE i \in 1..n :
                /\ LooksLikeHeader(df.rows[i])
                /\ \A k \in 1..(i - 1) : ~LooksLikeHeader(df.rows[k])
        ELSE 0

\* re.search(r"district|dzongkhag|dzongkhags|name", lc) for a lower-case lc
HasDistrictWord(lc) ==
    Contains(lc, tDistrict) \/ Contains(lc, tDzongkhag) \/ Contains(lc, tName)

\* re.search(r"district|dzongkhag|dzongkhags|name", c, flags=re.I)
IsDistrictCol(c) == HasDistrictWord(Lower(c))

\* the name the heuristic mapping gives a column whose lower-case label is lc,
\* << >> when no rule applies
MappedName(lc) ==
    IF Contains(lc, tDistrict) \/ Contains(lc, tDzongkhag) THEN cDistrict
    ELSE IF Contains(lc, tImport) THEN cCasesImported
    ELSE IF Contains(lc, tIndigenous) \/ Contains(lc, tLocal) THEN cCasesIndigenous
    ELSE IF Contains(lc, tCase) \/ Contains(lc, tTotal) THEN cCasesTotal
    ELSE << >>

\* c is a key of mapping
IsMapped(c) == MappedName(Lower(c)) # << >>

\* the label of column c after out = df.rename(columns=mapping)
MapName(c) == IF IsMapped(c) THEN MappedName(Lower(c)) ELSE c

needed == << cDistrict, cCasesTotal, cCasesImported, cCasesIndigenous >>

RECURSIVE AddMissing(_, _)
\* for n in names: if n not in out.columns: out[n] = pd.NA
AddMissing(out, names) ==
    IF Len(names) = 0 THEN out
    ELSE AddMissing(IF HasCol(out, names[1]) THEN out ELSE SetScalar(out, names[1], NA),
                    Tail(names))

\* df.melt(id_vars=[district_col], value_vars=year_cols, var_name="year",
\* value_name="cases_raw"), the year extracted from each label and district_col
\* renamed, for a frame whose district and year labels are each on one column
MeltLong(df, d, ycols) ==
    [cols |-> << cDistrict, cYear, cCasesRaw >>,
     rows |-> Flatten([k \in 1..Len(ycols) |->
                 [i \in 1..Len(df.rows) |->
                     << df.rows[i][d], Str(YearText(df.cols[ycols[k]])),
                        df.rows[i][ycols[k]] >>]])]

\* df.drop(index=range(0, header_row + 1)) finds every label it is to drop
DropOk(df0, h) == \A l \in 0..(h - 1) : \E i \in 1..Len(df0.idx) : df0.idx[i] = l

\* the labels of the columns: the header row as texts when there is one, else
\* the text of the integer labels
Named(df0, h) ==
    IF h > 0
    THEN [j \in 1..Len(df0.cols) |-> AsStr(df0.rows[h][j])]
    ELSE [j \in 1..Len(df0.cols) |-> IntText(df0.cols[j])]

\* the frame once the header is set, the rows up to it are dropped and the
\* whitespace of the column names is simplified
Relabelled(df0, h) ==
    [cols |-> [j \in 1..Len(df0.cols) |-> Strip(Collapse(Named(df0, h)[j]))],
     rows |-> SubSeq(df0.rows, h + 1, Len(df0.rows))]

\* the positions of the columns that IsDistrictCol; district_col is the first
DistrictCols(df) ==
    LET IsD(j) == IsDistrictCol(df.cols[j])
    IN  SelectSeq(Idx(Len(df.cols)), IsD)

\* the positions of the columns whose label holds a year
YearCols(df) ==
    LET IsY(j) == HasYear(df.cols[j])
    IN  SelectSeq(Idx(Len(df.cols)), IsY)

\* out = df.rename(columns=mapping), the needed columns added
Renamed(df) ==
    AddMissing([df EXCEPT !.cols = [j \in 1..Len(df.cols) |-> MapName(df.cols[j])]],
               needed)

\* the two branches of normalize_table_df
NormalizeCols(df, dcols, year_cols) ==
    IF Len(dcols) > 0 /\ Len(year_cols) > 0
    THEN [st |-> "ok", df |-> MeltLong(df, dcols[1], year_cols)]
    ELSE IF \E j \in 1..Len(df.cols) : IsMapped(df.cols[j])
    THEN [st |-> "ok", df |-> SelectCols(Renamed(df), needed)]
    ELSE [st |-> "none", df |-> EmptyDF]

NormalizeNamed(df) == NormalizeCols(df, DistrictCols(df), YearCols(df))

NormalizeHeader(df0, h) ==
    IF ~DropOk(df0, h) THEN [st |-> "raise", df |-> EmptyDF]
    ELSE NormalizeNamed(Relabelled(df0, h))

NormalizeDropped(df0) == NormalizeHeader(df0, HeaderRow(df0))

\* normalize_table_df: [st, df] with st "ok" (df is returned), "none" (None is
\* returned) or "raise" (df.drop raises KeyError: a label of
\* range(0, header_row + 1) is not in the index any more)
normalize_table_df(raw_df) == NormalizeDropped(DropEmpty(raw_df))

\* --------------------------------------------------------------- extraction

\* A PDF document is [pages], and a page is [text, camelot_raises, camelot, plumber_raises,
\* plumber]: what page.extract_text() returns (a text or None), and for each
\* library whether it raises on the page and the raw tables it finds there.

\* find_candidate_pages_for_keyword: the 1-indexed pages whose text contains
\* the keyword, whatever the case of its letters
find_candidate_pages_for_keyword(pdf, keyword) ==
    LET Has(p) ==
            LET text == IF IsNull(pdf.pages[p].text) THEN << >> ELSE pdf.pages[p].text.s
            IN  Contains(Lower(text), Lower(keyword))
    IN  SelectSeq(Idx(Len(pdf.pages)), Has)

\* the items the pdfplumber step adds for page p: none when it raises (the
\* name pdfplumber is unbound, or the page cannot be read)
PlumberItems(pdf, p, bound) ==
    IF ~bound \/ pdf.pages[p].plumber_raises THEN << >>
    ELSE [k \in 1..Len(pdf.pages[p].plumber) |->
            [method |-> "pdfplumber", page |-> p, df |-> pdf.pages[p].plumber[k]]]

\* the items the camelot step adds for page p: none when camelot is not
\* installed or camelot.read_pdf raises
CamelotItems(pdf, p, have_camelot) ==
    IF ~have_camelot \/ pdf.pages[p].camelot_raises THEN << >>
    ELSE [k \in 1..Len(pdf.pages[p].camelot) |->
            [method |-> "camelot", page |-> p, df |-> pdf.pages[p].camelot[k]]]

\* the body of the loop of extract_tables_from_pdf for page p
ExtractPage(pdf, p, have_camelot, bound) ==
    CamelotItems(pdf, p, have_camelot) \o PlumberItems(pdf, p, bound)

\* extract_tables_from_pdf: the (method, page, df) items of the pages, in order
extract_tables_from_pdf(pdf, pages, have_camelot, bound) ==
    Flatten([i \in 1..Len(pages) |-> ExtractPage(pdf, pages[i], have_camelot, bound)])

\* what extract_tables_from_pdf prints
ExtractLog(pdf, name, pages, have_camelot, bound) ==
    Flatten([i \in 1..Len(pages) |->
        << [msg |-> "Extracting tables from", what |-> name, page |-> pages[i]] >>
        \o (IF have_camelot /\ pdf.pages[pages[i]].camelot_raises
            THEN << [msg |-> "Camelot failed on page", what |-> name, page |-> pages[i]] >>
            ELSE << >>)
        \o (IF ~bound \/ pdf.pages[pages[i]].plumber_raises
            THEN << [msg |-> "pdfplumber failed on page", what |-> name, page |-> pages[i]] >>
            ELSE << >>)])

\* ------------------------------------------------------ parse_and_aggregate

\* norm with the three metadata columns set
WithMeta(norm, source_url, name, page) ==
    SetScalar(SetScalar(SetScalar(norm, cSourceUrl, Str(source_url)),
                        cSourcePdf, Str(name)),
              cSourcePage, IntV(page))

\* the positions of the tables whose normalization is a frame
OkItems(norm) ==
    LET IsOk(k) == norm[k].st = "ok"
    IN  SelectSeq(Idx(Len(norm)), IsOk)

\* collected: the frames of the positions ok, each with its metadata
Collected(raw_tables, norm, ok, source_url, name) ==
    [k \in 1..Len(ok) |->
        WithMeta(norm[ok[k]].df, source_url, name, raw_tables[ok[k]].page)]

\* pd.concat(collected) if collected else pd.DataFrame()
Merged(collected) ==
    IF Len(collected) = 0 THEN [st |-> "ok", df |-> EmptyDF]
    ELSE IF ~ConcatOk(collected) THEN [st |-> "raise", df |-> EmptyDF]
    ELSE [st |-> "ok", df |-> Concat(collected)]

ParseNormalized(raw_tables, norm, source_url, name) ==
    IF \E k \in 1..Len(norm) : norm[k].st = "raise"
    THEN [st |-> "raise", df |-> EmptyDF]
    ELSE Merged(Collected(raw_tables, norm, OkItems(norm), source_url, name))

\* the loop of parse_and_aggregate over raw_tables and its concatenation:
\* [st, df], st "raise" when normalize_table_df or pd.concat raises
ParseTables(raw_tables, source_url, name) ==
    ParseNormalized(raw_tables,
                    [k \in 1..Len(raw_tables) |-> normalize_table_df(raw_tables[k].df)],
                    source_url, name)

\* ---------------------------------------------------- clean_and_standardize

\* the first year in a text, NaN when it has none
YearIn(text) == IF HasYear(text) THEN Str(YearText(text)) ELSE NaN

\* Series.astype(str).str.extract(r"(20\d{2}|19\d{2})") of one value
ExtractYear(v) == YearIn(AsStr(v))

keep_cols ==
    << cDistrict, cYear, cCasesTotal, cCasesImported, cCasesIndigenous,
       cSourceUrl, cSourcePdf, cSourcePage >>

\* if name in df.columns: df[name] = the numbers read in df[name]
ParsedCol(df, name) ==
    IF HasCol(df, name) THEN SetCol(df, name, ParseCases(Col(df, name))) ELSE df

\* a column that clean_and_standardize reads as a Series is none: KeyError for
\* a missing district, AttributeError for .str on the DataFrame that a label
\* on several columns selects
CleanRaises(df) ==
    \/ HasCol(df, cYear) /\ ~IsSeries(df, cYear)
    \/ /\ \/ ~HasCol(df, cYear)
          \/ \A i \in 1..Len(df.rows) : IsNull(ExtractYear(Col(df, cYear)[i]))
       /\ ~IsSeries(df, cSourcePdf)
    \/ ~IsSeries(df, cDistrict)
    \/ \E c \in {cCasesRaw, cCasesTotal, cCasesImported, cCasesIndigenous} :
          HasCol(df, c) /\ ~IsSeries(df, c)

\* if "year" in df.columns: df["year"] = the year extracted from each value
YearExtracted(df) ==
    IF HasCol(df, cYear)
    THEN SetCol(df, cYear, [i \in 1..Len(df.rows) |-> ExtractYear(Col(df, cYear)[i])])
    ELSE df

\* if "year" not in df.columns or df["year"].isna().all(): the year of every
\* row is inferred from its source_pdf
YearInferred(df) ==
    IF ~HasCol(df, cYear) \/ \A i \in 1..Len(df.rows) : IsNull(Col(df, cYear)[i])
    THEN SetCol(df, cYear,
                [i \in 1..Len(df.rows) |->
                    infer_year_from_filename(AsStr(Col(df, cSourcePdf)[i]))])
    ELSE df

\* df["district"] as text, stripped, its whitespace simplified
DistrictCleaned(df) ==
    SetCol(df, cDistrict,
           [i \in 1..Len(df.rows) |-> Str(Collapse(Strip(AsStr(Col(df, cDistrict)[i]))))])

\* if "cases_raw" in df.columns: df["cases_total"] = the numbers of cases_raw
RawParsed(df) ==
    IF HasCol(df, cCasesRaw)
    THEN SetCol(df, cCasesTotal, ParseCases(Col(df, cCasesRaw)))
    ELSE df

\* the three case columns parsed, cases_total from what RawParsed left in it
CasesParsed(df) ==
    ParsedCol(ParsedCol(ParsedCol(RawParsed(df), cCasesTotal), cCasesImported),
              cCasesIndigenous)

\* clean_and_standardize without its last line, `return df[keep_cols]`
\* replaced by `return df`: the fault C4 is tested against
clean_without_selection(df) ==
    IF IsEmpty(df) THEN [st |-> "ok", df |-> df]
    ELSE IF CleanRaises(df) THEN [st |-> "raise", df |-> EmptyDF]
    ELSE [st |-> "ok",
          df |-> AddMissing(CasesParsed(DistrictCleaned(YearInferred(YearExtracted(df)))),
                            keep_cols)]

\* clean_and_standardize: [st, df], st "raise" when it raises
clean_and_standardize(df) ==
    IF IsEmpty(df) THEN [st |-> "ok", df |-> df]
    ELSE IF CleanRaises(df) THEN [st |-> "raise", df |-> EmptyDF]
    ELSE [st |-> "ok",
          df |-> SelectCols(
                     AddMissing(CasesParsed(DistrictCleaned(YearInferred(YearExtracted(df)))),
                                keep_cols),
                     keep_cols)]

\* -------------------------------------------------------------- aggregation

\* the key a value groups under: every null is the one NaN key (dropna=False)
GroupKey(v) == IF IsNull(v) THEN NaN ELSE v

\* a sorts before b in a grouping column: numbers, then texts, then null
KeyLess(a, b) ==
    CASE a.k = "int" /\ b.k = "int" -> a.n < b.n
      [] a.k = "str" /\ b.k = "str" -> StrLess(a.s, b.s)
      [] OTHER -> \/ a.k = "int" /\ b.k # "int"
                  \/ a.k = "str" /\ b.k = "nan"

\* the order of the groups of groupby(["district", "year"])
PairLess(p, q) == KeyLess(p[1], q[1]) \/ (p[1] = q[1] /\ KeyLess(p[2], q[2]))

RECURSIVE SortPairs(_)
\* the pairs of a set in the order of PairLess
SortPairs(ps) ==
    IF ps = {} THEN << >>
    ELSE LET m == CHOOSE p \in ps : \A q \in ps : q = p \/ PairLess(p, q)
         IN  << m >> \o SortPairs(ps \ {m})

RECURSIVE SumN(_)
\* the sum of the numbers of a sequence of values
SumN(vs) == IF Len(vs) = 0 THEN 0 ELSE vs[1].n + SumN(Tail(vs))

NotNull(v) == ~IsNull(v)

\* "first" in the place of "sum": the first value of the group that is not
\* null, the fault C5 is tested against
GroupFirst(vs, col) ==
    IF \E i \in 1..Len(vs) : ~IsNull(vs[i]) THEN SelectSeq(vs, NotNull)[1] ELSE NaN

\* "sum" of the values vs of one group, of a column whose values are col:
\* nulls are skipped, and the sum of none is 0; the result is a float in a
\* float64 column and, in an object column, when a float is added
GroupSum(vs, col) ==
    LET nums == SelectSeq(vs, NotNull)
        isObject == \E i \in 1..Len(col) : col[i].k \in {"na", "none", "str"}
        isFloat ==
            IF isObject THEN \E i \in 1..Len(nums) : nums[i].k = "float"
            ELSE \E i \in 1..Len(col) : col[i].k \in {"float", "nan"}
    IN  IF isFloat THEN FloatV(SumN(nums)) ELSE IntV(SumN(nums))

agg_cols == << cCasesTotal, cCasesImported, cCasesIndigenous >>

\* df.groupby(["district", "year"], dropna=False).agg({"cases_total": "sum",
\* "cases_imported": "sum", "cases_indigenous": "sum"}).reset_index()
GroupBySum(df) ==
    LET n == Len(df.rows)
        d == Col(df, cDistrict)
        y == Col(df, cYear)
        keys == SortPairs({<< GroupKey(d[i]), GroupKey(y[i]) >> : i \in 1..n})
        Of(key, c) ==
            LET In(i) == << GroupKey(d[i]), GroupKey(y[i]) >> = key
                r == SelectSeq(Idx(n), In)
            IN  GroupSum([i \in 1..Len(r) |-> Col(df, c)[r[i]]], Col(df, c))
    IN  [cols |-> << cDistrict, cYear >> \o agg_cols,
         rows |-> [g \in 1..Len(keys) |->
                     << keys[g][1], keys[g][2] >>
                     \o [j \in 1..Len(agg_cols) |-> Of(keys[g], agg_cols[j])]]]

\* the text to_csv writes for a value: nothing for a null
CsvText(v) == IF IsNull(v) THEN << >> ELSE AsStr(v)

\* a file that does not exist
NoFile == [exists |-> FALSE, header |-> << >>, lines |-> << >>]

\* df.to_csv(path, index=False): the header line and one line per row
to_csv(df) ==
    [exists |-> TRUE,
     header |-> df.cols,
     lines |-> [i \in 1..Len(df.rows) |->
                  [j \in 1..Len(df.cols) |-> CsvText(df.rows[i][j])]]]

\* ------------------------------------------------------------------- world

\* The PDFs the model's URLs serve.  Each raw table is what a library returns
\* for a table of the page: camelot's cells are texts, pdfplumber's are texts
\* or None.

\* District | 2015 | 2016, every cell a number
TYear ==
    << << Str(<< "D", "i", "s", "t", "r", "i", "c", "t" >>), Str(<< "2", "0", "1", "5" >>), Str(<< "2", "0", "1", "6" >>) >>,
       << Str(<< "P", "a", "r", "o" >>), Str(<< "1", "2" >>), Str(<< "3" >>) >>,
       << Str(<< " ", "H", "a", "a" >>), Str(<< "5" >>), Str(<< "7" >>) >> >>

\* Dzongkhag | Cases 2017 | Cases 2018, one cell with no number
TYearGap ==
    << << Str(<< "D", "z", "o", "n", "g", "k", "h", "a", "g" >>), Str(<< "C", "a", "s", "e", "s", " ", "2", "0", "1", "7" >>), Str(<< "C", "a", "s", "e", "s", " ", "2", "0", "1", "8" >>) >>,
       << Str(<< "P", "a", "r", "o" >>), Str(<< "1", "2" >>), Str(<< "-" >>) >> >>

\* District | Total cases | Imported | Local
TMap ==
    << << Str(<< "D", "i", "s", "t", "r", "i", "c", "t" >>), Str(<< "T", "o", "t", "a", "l", " ", "c", "a", "s", "e", "s" >>), Str(<< "I", "m", "p", "o", "r", "t", "e", "d" >>), Str(<< "L", "o", "c", "a", "l" >>) >>,
       << Str(<< "P", "a", "r", "o" >>), Str(<< "4" >>), Str(<< "1" >>), Str(<< "3" >>) >>,
       << Str(<< "H", "a", "a", " ", " ", "T", "o", "w", "n" >>), Str(<< "2" >>), Str(<<  >>), NoneV >> >>

\* District | Cases | Total: two columns that map to cases_total
TDup ==
    << << Str(<< "D", "i", "s", "t", "r", "i", "c", "t" >>), Str(<< "C", "a", "s", "e", "s" >>), Str(<< "T", "o", "t", "a", "l" >>) >>,
       << Str(<< "P", "a", "r", "o" >>), Str(<< "4" >>), Str(<< "4" >>) >> >>

\* TMap as camelot returns it: an empty text where pdfplumber has None
TMapC ==
    << << Str(<< "D", "i", "s", "t", "r", "i", "c", "t" >>), Str(<< "T", "o", "t", "a", "l", " ", "c", "a", "s", "e", "s" >>), Str(<< "I", "m", "p", "o", "r", "t", "e", "d" >>), Str(<< "L", "o", "c", "a", "l" >>) >>,
       << Str(<< "P", "a", "r", "o" >>), Str(<< "4" >>), Str(<< "1" >>), Str(<< "3" >>) >>,
       << Str(<< "H", "a", "a", " ", " ", "T", "o", "w", "n" >>), Str(<< "2" >>), Str(<<  >>), Str(<<  >>) >> >>

\* a table with no header row
TNoHeader ==
    << << Str(<< "P", "a", "r", "o" >>), Str(<< "9" >>) >>,
       << Str(<< "H", "a", "a" >>), Str(<< "1" >>) >> >>

\* a first row of None cells, then the header
TLabel ==
    << << NoneV, NoneV >>,
       << Str(<< "D", "i", "s", "t", "r", "i", "c", "t" >>), Str(<< "T", "o", "t", "a", "l" >>) >>,
       << Str(<< "P", "a", "r", "o" >>), Str(<< "6" >>) >> >>

Page(text, camelot_raises, camelot, plumber_raises, plumber) ==
    [text |-> text, camelot_raises |-> camelot_raises, camelot |-> camelot,
     plumber_raises |-> plumber_raises, plumber |-> plumber]

tKeyword == << "M", "a", "l", "a", "r", "i", "a" >>

u1 == << "a", "/", "b", "2", "0", "1", "5" >>
u2 == << "c", "/", "b", "2", "0", "1", "5" >>
u3 == << "a", "/", "h", "2", "0", "1", "8" >>
u4 == << "a", "/", "r", "e", "p" >>
u5 == << "a", "/", "q", "2", "0", "2", "4" >>
u6 == << "a", "/", "k", "2", "0", "1", "9" >>
u7 == << "a", "/", "n", "2", "0", "2", "0" >>

Urls == { u1, u2, u3, u4, u5, u6, u7 }

\* the PDF a successful GET of url returns
Web(url) ==
    CASE url = u1 ->
           [pages |-> << Page(Str(<< "M", "a", "l", "a", "r", "i", "a", " ", "c", "a", "s", "e", "s" >>), FALSE, << TYear >>, FALSE, << TYear >>),
                         Page(Str(<< "T", "B" >>), FALSE, << TMapC >>, FALSE, << TMap >>) >>]
      [] url = u2 ->
           [pages |-> << Page(Str(<< "M", "A", "L", "A", "R", "I", "A" >>), TRUE, << >>, FALSE, << TMap, TNoHeader >>) >>]
      [] url = u3 ->
           [pages |-> << Page(Str(<< "m", "a", "l", "a", "r", "i", "a" >>), FALSE, << TYearGap >>, FALSE, << TYearGap >>),
                         Page(NoneV, FALSE, << >>, FALSE, << >>),
                         Page(Str(<< "M", "a", "l", "a", "r", "i", "a" >>), FALSE, << >>, FALSE, << TMap >>) >>]
      [] url = u4 ->
           [pages |-> << Page(Str(<< "M", "a", "l", "a", "r", "i", "a" >>), FALSE, << TMapC >>, TRUE, << >>) >>]
      [] url = u5 ->
           [pages |-> << Page(Str(<< "M", "a", "l", "a", "r", "i", "a", " ", "i", "n", " ", "2", "0", "2", "4" >>), FALSE, << TDup >>, FALSE, << >>) >>]
      [] url = u6 ->
           [pages |-> << Page(Str(<< "M", "a", "l", "a", "r", "i", "a" >>), FALSE, << >>, FALSE, << TLabel >>) >>]
      [] url = u7 ->
           [pages |-> << Page(Str(<< "D", "e", "n", "g", "u", "e" >>), FALSE, << TYear >>, FALSE, << TYear >>) >>]

RECURSIVE LastName(_)
\* Path(urlparse(url).path).name: what follows the last "/" of the path
LastName(path) ==
    IF Len(path) = 0 THEN << >>
    ELSE IF path[Len(path)] = "/" THEN << >>
    ELSE LastName(SubSeq(path, 1, Len(path) - 1)) \o << path[Len(path)] >>

\* ------------------------------------------------------------- download_pdf

\* The output directory is the set of its PDF files, each [name, content]; the
\* content of a downloaded file is named by the URL that served it.
Exists(dir, name) == \E f \in dir : f.name = name

Content(dir, name) == (CHOOSE f \in dir : f.name = name).content

\* what requests.get and raise_for_status can do: a 200 response with the
\* PDF, an exception of the request, an HTTP error status
Responses == {"ok", "timeout", "http_error"}

Msg(msg, what) == [msg |-> msg, what |-> what, page |-> 0]

\* download_pdf with the file written before raise_for_status is called, so
\* that an HTTP error status leaves its body in the directory: the fault C9 is
\* tested against
download_pdf_write_first(url, dir, response) ==
    IF Exists(dir, LastName(url))
    THEN [st |-> "ok", path |-> LastName(url), dir |-> dir,
          out |-> << Msg("Using cached", LastName(url)) >>]
    ELSE IF response = "ok"
    THEN [st |-> "ok", path |-> LastName(url),
          dir |-> dir \cup {[name |-> LastName(url), content |-> url]},
          out |-> << Msg("Downloading", url), Msg("Saved", LastName(url)) >>]
    ELSE IF response = "http_error"
    THEN [st |-> "raise", path |-> << >>,
          dir |-> dir \cup {[name |-> LastName(url), content |-> url]},
          out |-> << Msg("Downloading", url) >>]
    ELSE [st |-> "raise", path |-> << >>, dir |-> dir,
          out |-> << Msg("Downloading", url) >>]

\* download_pdf(url) in the directory dir when the network answers response:
\* [st, path, dir, out], st "raise" when the request or raise_for_status raises
download_pdf(url, dir, response) ==
    LET filename == LastName(url)
    IN  IF Exists(dir, filename)
        THEN [st |-> "ok", path |-> filename, dir |-> dir,
              out |-> << Msg("Using cached", filename) >>]
        ELSE IF response = "ok"
        THEN [st |-> "ok", path |-> filename,
              dir |-> dir \cup {[name |-> filename, content |-> url]},
              out |-> << Msg("Downloading", url), Msg("Saved", filename) >>]
        ELSE [st |-> "raise", path |-> << >>, dir |-> dir,
              out |-> << Msg("Downloading", url) >>]

\* --------------------------------------------------------------------- main

\* the longest PDF_SOURCES of the model
MaxSources == 2

VARIABLES
    PDF_SOURCES,       \* the list of URLs
    HAVE_CAMELOT,      \* whether `import camelot` succeeded
    pdfplumber_bound,  \* whether the module's global name pdfplumber is bound
    files,             \* the PDFs in OUT_DIR
    raw_csv,           \* OUT_DIR / "malaria_districts_raw_extracted.csv"
    agg_csv,           \* OUT_DIR / "malaria_districts_by_year_aggregated.csv"
    log,               \* what has been printed
    pc,                \* where main is
    next_url,          \* the position in PDF_SOURCES of the loop of main
    pdf_path,          \* the name of the file download_pdf returned
    raw_tables,        \* what extract_tables_from_pdf returned for pdf_path
    all_records,       \* the cleaned frames collected so far
    df_all,            \* their concatenation
    df_group,          \* its aggregation by district and year
    error,             \* the function whose exception ended main, or "none"
    captured           \* history: every return value of extract_tables_from_pdf

vars ==
    << PDF_SOURCES, HAVE_CAMELOT, pdfplumber_bound, files, raw_csv, agg_csv, log, pc,
       next_url, pdf_path, raw_tables, all_records, df_all, df_group, error, captured >>

env == << PDF_SOURCES, HAVE_CAMELOT, pdfplumber_bound >>

\* every list of at most MaxSources URLs
SourceLists == UNION {[1..n -> Urls] : n \in 0..MaxSources}

\* The module is loaded: OUT_DIR is new, camelot is installed or not.  app.py
\* never imports pdfplumber, so the name is bound only when the process that
\* loads the module defines it in the module's globals.
Init ==
    /\ PDF_SOURCES \in SourceLists
    /\ HAVE_CAMELOT \in BOOLEAN
    /\ pdfplumber_bound \in BOOLEAN
    /\ files = {}
    /\ raw_csv = NoFile
    /\ agg_csv = NoFile
    /\ log = << >>
    /\ pc = "download"
    /\ next_url = 1
    /\ pdf_path = << >>
    /\ raw_tables = << >>
    /\ all_records = << >>
    /\ df_all = EmptyDF
    /\ df_group = EmptyDF
    /\ error = "none"
    /\ captured = << >>

InLoop == pc = "download" /\ next_url <= Len(PDF_SOURCES)

\* the PDF at pdf_path
Pdf == Web(Content(files, pdf_path))

\* the url of the current iteration
Url == PDF_SOURCES[next_url]

\* `continue`, or the end of the body of the loop
NextSource ==
    /\ next_url' = next_url + 1
    /\ pc' = "download"
    /\ pdf_path' = << >>
    /\ raw_tables' = << >>

\* an exception leaves main
Crash(where) ==
    /\ pc' = "crashed"
    /\ error' = where
    /\ UNCHANGED << env, files, raw_csv, agg_csv, log, next_url, pdf_path, raw_tables,
                    all_records, df_all, df_group, captured >>

\* pdf_path = download_pdf(url) returns
DownloadOk ==
    /\ InLoop
    /\ \E response \in Responses :
          LET r == download_pdf(Url, files, response)
          IN  /\ r.st = "ok"
              /\ files' = r.dir
              /\ log' = log \o r.out
              /\ pdf_path' = r.path
    /\ pc' = "scan"
    /\ UNCHANGED << env, raw_csv, agg_csv, next_url, raw_tables, all_records, df_all,
                    df_group, error, captured >>

\* the call of download_pdf outside any try: its exception leaves main, the
\* fault C2 is tested against
DownloadFailedUncaught ==
    /\ InLoop
    /\ \E response \in Responses :
          LET r == download_pdf(Url, files, response)
          IN  /\ r.st = "raise"
              /\ files' = r.dir
              /\ log' = log \o r.out
    /\ pc' = "crashed"
    /\ error' = "download_pdf"
    /\ UNCHANGED << env, raw_csv, agg_csv, next_url, pdf_path, raw_tables, all_records,
                    df_all, df_group, captured >>

\* download_pdf(url) raises: except Exception, print, continue
DownloadFailed ==
    /\ InLoop
    /\ \E response \in Responses :
          LET r == download_pdf(Url, files, response)
          IN  /\ r.st = "raise"
              /\ files' = r.dir
              /\ log' = log \o r.out \o << Msg("Download failed", Url) >>
    /\ NextSource
    /\ UNCHANGED << env, raw_csv, agg_csv, all_records, df_all, df_group, error, captured >>

\* find_candidate_pages_for_keyword raises NameError at pdfplumber.open; nothing
\* in parse_and_aggregate or main catches it
ScanFails ==
    /\ pc = "scan"
    /\ ~pdfplumber_bound
    /\ Crash("find_candidate_pages_for_keyword")

\* parse_and_aggregate finds no page and returns an empty frame; main continues
NoCandidatePages ==
    /\ pc = "scan"
    /\ pdfplumber_bound
    /\ find_candidate_pages_for_keyword(Pdf, tKeyword) = << >>
    /\ log' = log \o << Msg("No candidate pages containing 'Malaria' found in", pdf_path),
                        Msg("No tables parsed from", pdf_path) >>
    /\ NextSource
    /\ UNCHANGED << env, files, raw_csv, agg_csv, all_records, df_all, df_group, error, captured >>

\* raw_tables = extract_tables_from_pdf(pdf_path, pages)
ExtractTables ==
    /\ pc = "scan"
    /\ pdfplumber_bound
    /\ LET pages == find_candidate_pages_for_keyword(Pdf, tKeyword)
           tables == extract_tables_from_pdf(Pdf, pages, HAVE_CAMELOT, pdfplumber_bound)
       IN  /\ pages # << >>
           /\ raw_tables' = tables
           /\ captured' = Append(captured, [pdf |-> pdf_path, tables |-> tables])
           /\ log' = log \o ExtractLog(Pdf, pdf_path, pages, HAVE_CAMELOT, pdfplumber_bound)
    /\ pc' = "normalize"
    /\ UNCHANGED << env, files, raw_csv, agg_csv, next_url, pdf_path, all_records, df_all,
                    df_group, error >>

\* what parse_and_aggregate makes of raw_tables
Parsed == ParseTables(raw_tables, Url, pdf_path)

\* normalize_table_df or pd.concat raises in parse_and_aggregate; nothing catches it
ParseFails ==
    /\ pc = "normalize"
    /\ Parsed.st = "raise"
    /\ Crash("parse_and_aggregate")

\* parsed.empty: print, continue
ParsedEmpty ==
    /\ pc = "normalize"
    /\ Parsed.st = "ok"
    /\ IsEmpty(Parsed.df)
    /\ log' = log \o << Msg("No tables parsed from", pdf_path) >>
    /\ NextSource
    /\ UNCHANGED << env, files, raw_csv, agg_csv, all_records, df_all, df_group, error, captured >>

\* clean_and_standardize raises; nothing catches it
CleanFails ==
    /\ pc = "normalize"
    /\ Parsed.st = "ok"
    /\ ~IsEmpty(Parsed.df)
    /\ clean_and_standardize(Parsed.df).st = "raise"
    /\ Crash("clean_and_standardize")

\* all_records.append(clean_and_standardize(parsed))
AppendCleaned ==
    /\ pc = "normalize"
    /\ Parsed.st = "ok"
    /\ ~IsEmpty(Parsed.df)
    /\ LET cleaned == clean_and_standardize(Parsed.df)
       IN  /\ cleaned.st = "ok"
           /\ all_records' = Append(all_records, cleaned.df)
    /\ NextSource
    /\ UNCHANGED << env, files, raw_csv, agg_csv, log, df_all, df_group, error, captured >>

\* if not all_records: print, return
NoData ==
    /\ pc = "download"
    /\ next_url > Len(PDF_SOURCES)
    /\ all_records = << >>
    /\ log' = log \o << Msg("No data extracted.", << >>) >>
    /\ pc' = "done"
    /\ UNCHANGED << env, files, raw_csv, agg_csv, next_url, pdf_path, raw_tables,
                    all_records, df_all, df_group, error, captured >>

\* the raw frame written to the path of the aggregated file: the fault C3 is
\* tested against
WriteRawToAggregatedPath ==
    /\ pc = "download"
    /\ next_url > Len(PDF_SOURCES)
    /\ all_records # << >>
    /\ df_all' = Concat(all_records)
    /\ agg_csv' = to_csv(df_all')
    /\ log' = log \o << Msg("Saved raw extracted CSV to", << >>) >>
    /\ pc' = "aggregate"
    /\ UNCHANGED << env, files, raw_csv, next_url, pdf_path, raw_tables, all_records,
                    df_group, error, captured >>

\* df_all = pd.concat(all_records); df_all.to_csv(raw file); print
WriteRaw ==
    /\ pc = "download"
    /\ next_url > Len(PDF_SOURCES)
    /\ all_records # << >>
    /\ df_all' = Concat(all_records)
    /\ raw_csv' = to_csv(df_all')
    /\ log' = log \o << Msg("Saved raw extracted CSV to", << >>) >>
    /\ pc' = "aggregate"
    /\ UNCHANGED << env, files, agg_csv, next_url, pdf_path, raw_tables, all_records,
                    df_group, error, captured >>

\* df_group = df_all.groupby(...).agg(...); df_group.to_csv(aggregated file); print
WriteAggregated ==
    /\ pc = "aggregate"
    /\ df_group' = GroupBySum(df_all)
    /\ agg_csv' = to_csv(df_group')
    /\ log' = log \o << Msg("Saved aggregated CSV to", << >>), Msg("Done.", << >>) >>
    /\ pc' = "done"
    /\ UNCHANGED << env, files, raw_csv, next_url, pdf_path, raw_tables, all_records,
                    df_all, error, captured >>

Next ==
    \/ DownloadOk
    \/ DownloadFailed
    \/ ScanFails
    \/ NoCandidatePages
    \/ ExtractTables
    \/ ParseFails
    \/ ParsedEmpty
    \/ CleanFails
    \/ AppendCleaned
    \/ NoData
    \/ WriteRaw
    \/ WriteAggregated

Spec == Init /\ [][Next]_vars

\* ------------------------------------------------------------------- claims

LastLog == log[Len(log)]

\* C1: a failure of an extraction step (the keyword page scan, the extraction
\* of the tables of a page, the normalization or the cleaning of a table) is
\* caught, so main is never ended by the exception of one: it goes on to the
\* later sources and to its final step.
C1_ExtractionFailuresCaught ==
    ~(pc = "crashed" /\ error \in {"find_candidate_pages_for_keyword",
                                   "parse_and_aggregate", "clean_and_standardize"})

\* C2: a step of the loop in which download_pdf does not return a path (it
\* raised) prints "Download failed" for the URL, leaves all_records as it was
\* and goes on to the next URL; main is not ended.
C2_DownloadFailureSkipsUrl ==
    [][(InLoop /\ pc' # "scan") =>
          /\ pc' = "download"
          /\ next_url' = next_url + 1
          /\ all_records' = all_records
          /\ error' = "none"
          /\ Len(log') > Len(log)
          /\ log'[Len(log')] = Msg("Download failed", PDF_SOURCES[next_url])]_vars

\* C2, reached: a download fails after a source has given records
C2_Witness ==
    /\ pc = "download"
    /\ Len(all_records) >= 1
    /\ Len(log) > 0
    /\ LastLog.msg = "Download failed"

\* the sources main skipped: their download failed or they parsed to nothing
C3_Skipped ==
    Cardinality({k \in 1..Len(log) :
                    log[k].msg \in {"Download failed", "No tables parsed from"}})

\* C3: when main ends and every source was skipped, it has reported that no
\* data was extracted and written neither file; when it ends otherwise, both
\* files are written; and the aggregated file is never there before the raw one.
C3_BothFilesOrNone ==
    /\ agg_csv.exists => raw_csv.exists
    /\ pc = "aggregate" => raw_csv.exists /\ ~agg_csv.exists
    /\ pc = "done" =>
          IF C3_Skipped = Len(PDF_SOURCES)
          THEN ~raw_csv.exists /\ ~agg_csv.exists /\ LastLog.msg = "No data extracted."
          ELSE raw_csv.exists /\ agg_csv.exists

\* C3, reached: main ends with nothing written, one download having failed and
\* one PDF having parsed to nothing
C3_Witness ==
    /\ pc = "done"
    /\ Len(PDF_SOURCES) = 2
    /\ ~raw_csv.exists
    /\ \E k \in 1..Len(log) : log[k].msg = "Download failed"
    /\ \E k \in 1..Len(log) : log[k].msg = "No tables parsed from"

C4_Columns ==
    << cDistrict, cYear, cCasesTotal, cCasesImported, cCasesIndigenous,
       cSourceUrl, cSourcePdf, cSourcePage >>

C5_SameYear(a, b) == IF IsNull(a) \/ IsNull(b) THEN IsNull(a) /\ IsNull(b) ELSE a = b

\* the raw rows of the pair of the aggregated row g
C5_RawRows(g) ==
    {i \in 1..Len(df_all.rows) :
        /\ df_all.rows[i][1] = df_group.rows[g][1]
        /\ C5_SameYear(df_all.rows[i][2], df_group.rows[g][2])}

RECURSIVE C5_Sum(_, _)
\* the sum of the values of column j that are not null, over the raw rows of rs
C5_Sum(rs, j) ==
    IF rs = {} THEN 0
    ELSE LET i == CHOOSE x \in rs : TRUE
         IN  (IF IsNull(df_all.rows[i][j]) THEN 0 ELSE df_all.rows[i][j].n)
             + C5_Sum(rs \ {i}, j)

C6_Entries(raw_df) ==
    IF normalize_table_df(raw_df).st = "ok" /\ HasCol(normalize_table_df(raw_df).df, cYear)
    THEN {<< Collapse(Strip(AsStr(r[1]))), r[2], IntOfText(AsStr(r[3])) >> :
            r \in {normalize_table_df(raw_df).df.rows[i] :
                     i \in {x \in 1..Len(normalize_table_df(raw_df).df.rows) :
                              IsIntText(AsStr(normalize_table_df(raw_df).df.rows[x][3]))}}}
    ELSE {}

\* how many of the extracted tables of the run have an entry for (d, y)
C6_Copies(d, y) ==
    Cardinality({sk \in {<< s, k >> : s \in 1..Len(captured), k \in 1..8} :
                    /\ sk[2] <= Len(captured[sk[1]].tables)
                    /\ \E e \in C6_Entries(captured[sk[1]].tables[sk[2]].df) :
                          e[1] = d /\ e[2] = y})

\* C6: when camelot and pdfplumber return the same table for one page, the
\* aggregated cases_total of each (district, year) of the table, no other
\* extracted table having the pair, is twice the value the table gives it.
C6_CapturedTwiceCountsTwice ==
    (pc = "done" /\ agg_csv.exists) =>
        \A s \in 1..Len(captured) : \A a, b \in 1..Len(captured[s].tables) :
            (/\ captured[s].tables[a].method = "camelot"
             /\ captured[s].tables[b].method = "pdfplumber"
             /\ captured[s].tables[a].page = captured[s].tables[b].page
             /\ captured[s].tables[a].df = captured[s].tables[b].df) =>
                \A e \in C6_Entries(captured[s].tables[a].df) :
                    C6_Copies(e[1], e[2]) = 2 =>
                        \E g \in 1..Len(df_group.rows) :
                            /\ df_group.rows[g][1] = Str(e[1])
                            /\ df_group.rows[g][2] = e[2]
                            /\ df_group.rows[g][3].n = 2 * e[3]

\* C7: pdfplumber is the fallback of camelot, so the tables that
\* extract_tables_from_pdf returns for one page all come from one method.
C7_OneMethodPerPage ==
    \A a, b \in 1..Len(raw_tables) :
        raw_tables[a].page = raw_tables[b].page => raw_tables[a].method = raw_tables[b].method

\* C8: after clean_and_standardize, a record of a PDF whose file name holds a
\* year has a year: the year of its table, or else the year of the file name,
\* also when other records of the batch have a year of their table.
C8_MissingYearInferred ==
    \A k \in 1..Len(all_records) : \A i \in 1..Len(all_records[k].rows) :
        HasYear(AsStr(all_records[k].rows[i][7])) => ~IsNull(all_records[k].rows[i][2])

\* C9: a file of the output directory is never removed or rewritten; a call
\* of download_pdf for a name the directory has returns that path and prints
\* "Using cached" only (no request); a call for a name it has not prints
\* "Downloading" (the request) and either saves the file and returns its
\* path, or raises and leaves the directory as it was.
C9_CacheAndRetry ==
    [][/\ files \subseteq files'
       /\ InLoop =>
             IF Exists(files, LastName(PDF_SOURCES[next_url]))
             THEN /\ files' = files
                  /\ pc' = "scan"
                  /\ pdf_path' = LastName(PDF_SOURCES[next_url])
                  /\ log' = Append(log, Msg("Using cached", LastName(PDF_SOURCES[next_url])))
             ELSE /\ Len(log') > Len(log)
                  /\ log'[Len(log) + 1] = Msg("Downloading", PDF_SOURCES[next_url])
                  /\ pc' = "scan" =>
                        /\ pdf_path' = LastName(PDF_SOURCES[next_url])
                        /\ files' = files \cup {[name |-> LastName(PDF_SOURCES[next_url]),
                                                 content |-> PDF_SOURCES[next_url]]}
                  /\ pc' # "scan" => files' = files]_vars

\* C9, reached: a file that was saved is used from the cache by a later call
C9_Witness ==
    \E a, b \in 1..Len(log) :
        /\ a < b
        /\ log[a].msg = "Saved"
        /\ log[b].msg = "Using cached"
        /\ log[a].what = log[b].what
====
